---- MODULE Spec2Model ----
(***************************************************************************)
(* Waitlist signups and the email-campaign dispatch of src/app.py.         *)
(*                                                                         *)
(* The store (Firestore collections waitlist_users and email_campaigns) is *)
(* shared by concurrent requests.  Every request handler is cut at its     *)
(* store operations: one action per store read or write, with the local    *)
(* computation that follows it.  The SMTP conversation of                   *)
(* send_email_campaign touches no shared state and is one action.          *)
(*                                                                         *)
(* Strings are sequences of one-character strings.  Subjects and contents   *)
(* are kept as far as the handlers branch on them (empty or not after      *)
(* strip()).                                                               *)
(*                                                                         *)
(* Specifications: Spec, all handlers, and FairSpec, Spec with every       *)
(* request in flight served to its end; NoEditSpec, all handlers but       *)
(* edit_user; RenderSpec, send_email_campaign alone with the content kept  *)
(* in full and followed through its personalization, for a recipient that  *)
(* signup() stored; RecipientSpec, the same for a recipient whose optional *)
(* attributes may be absent.                                               *)
(***************************************************************************)
EXTENDS Integers, Sequences, FiniteSets, TLC

\* ------------------------------------------------------------------ bounds
NumProcs == 2        \* concurrent request workers
MaxUsers == 2        \* signup records the store may hold
MaxCampaigns == 2    \* campaign documents ever created
MaxRequests == 4     \* requests served in one behaviour

Procs == 1..NumProcs
UserIds == 1..MaxUsers
CampaignIds == 1..MaxCampaigns

\* ------------------------------------------------------------- form inputs
RawEmails == { <<>>, <<" ">>, <<"a">>, <<" ", "A">>, <<"b">> }
\* (subject, content) as typed into the campaign form
RawForms == { << <<"H">>, <<"H", " ">> >>, << <<" ">>, <<"H">> >>,
              << <<"H">>, <<>> >>, << <<>>, <<" ">> >> }
Statuses == { "pending", "contacted" }
\* name, company and role as typed into the signup form
RawProfile == [name |-> <<" ", "N">>, company |-> <<"C">>, role |-> <<>>]
\* the notes typed into the edit form
Notes == { <<>>, <<"n">> }

VARIABLES
    users,          \* waitlist_users: sequence of documents, in document order
    campaigns,      \* email_campaigns: document id -> document (existing ones)
    nextCampaign,   \* number of campaign document ids handed out
    live,           \* SMTP_USERNAME and SMTP_PASSWORD are both set
    pc,             \* per worker: position in the handler it runs
    req,            \* per worker: the handler's locals (and its history)
    nreq            \* requests started

vars == <<users, campaigns, nextCampaign, live, pc, req, nreq>>

\* ----------------------------------------------------------- string helpers
RECURSIVE LStrip(_)
LStrip(s) == IF s # <<>> /\ Head(s) = " " THEN LStrip(Tail(s)) ELSE s

RECURSIVE RStrip(_)
RStrip(s) ==
    IF s # <<>> /\ s[Len(s)] = " " THEN RStrip(SubSeq(s, 1, Len(s) - 1)) ELSE s

Strip(s) == RStrip(LStrip(s))

LowerChar(c) == CASE c = "A" -> "a" [] c = "B" -> "b" [] OTHER -> c

Lower(s) == [k \in 1..Len(s) |-> LowerChar(s[k])]

\* request.form.get('email', '').strip().lower()
NormalizeEmail(raw) == Lower(Strip(raw))

\* ------------------------------------------------------------ store helpers
\* DocumentReference.update(fields): the named fields are overwritten.
Update(doc, fields) ==
    [k \in DOMAIN doc |-> IF k \in DOMAIN fields THEN fields[k] ELSE doc[k]]

\* (a slip: the query returns every document)
AllDocs == [j \in 1..Len(users) |-> j]

\* users_ref.where('status', '==', 'pending').get(): the matching documents
PendingDocs ==
    SelectSeq([j \in 1..Len(users) |-> j], LAMBDA j : users[j].status = "pending")

\* the 'email' field of each document of a query result
EmailsOf(docs) == [k \in 1..Len(docs) |-> users[docs[k]].email]

\* campaigns_ref.add(document): a new document under a fresh id
AddCampaign(doc) ==
    [c \in DOMAIN campaigns \cup {nextCampaign + 1} |->
        IF c = nextCampaign + 1 THEN doc ELSE campaigns[c]]

\* campaign_ref.delete()
RemoveCampaign(cid) == [c \in DOMAIN campaigns \ {cid} |-> campaigns[c]]

\* (a slip: the lookup finds nothing)
ExistingUserNever(email) == {}

\* users_ref.where('email', '==', email).limit(1).get()
ExistingUser(email) == { j \in 1..Len(users) : users[j].email = email }

\* the document signup() adds
NewUser(email, profile) ==
    [email |-> email, name |-> profile.name, company |-> profile.company,
     role |-> profile.role, status |-> "pending", signup_date |-> "set",
     notes |-> <<>>]

\* (a slip: only the subject is required)
MissingSubject(subject, content) == subject = <<>>

\* line 526: not subject or not content
Missing(subject, content) == subject = <<>> \/ content = <<>>

\* the document save_email() adds for a draft
DraftCampaign(subject, content) ==
    [subject |-> subject, content |-> content, status |-> "draft",
     sent_at |-> "None", recipients_count |-> 0]

\* the document save_email() adds for action 'send_now'
SentNowCampaign(subject, content, count) ==
    [subject |-> subject, content |-> content, status |-> "sent",
     sent_at |-> "set", recipients_count |-> count]

\* the document excelsior_emails() adds when the collection cannot be read
\* (its subject and content are fixed, non-empty texts)
SavedCampaign ==
    [subject |-> <<"H">>, content |-> <<"H">>, status |-> "draft",
     sent_at |-> "None", recipients_count |-> 0]

\* (a slip: every campaign passes for a draft)
IsDraftAlways(campaign_data) == TRUE

\* line 635: campaign_data.get('status') != 'draft' is what rejects
IsDraft(campaign_data) == campaign_data.status = "draft"

\* (a slip: the update leaves the status as it was)
SentFieldsWithoutStatus(sent_count) ==
    [sent_at |-> "set", recipients_count |-> sent_count]

\* the fields send_campaign() writes on the campaign after the batch
SentFields(sent_count) ==
    [status |-> "sent", sent_at |-> "set", recipients_count |-> sent_count]

\* ---------------------------------------------------------- personalization
\* dict.get(key, default)
Get(d, key, default) == IF key \in DOMAIN d THEN d[key] ELSE default

StartsWith(s, prefix) ==
    Len(s) >= Len(prefix) /\ SubSeq(s, 1, Len(prefix)) = prefix

\* str.replace(old, new) for a non-empty old: the occurrences of old, found
\* from the left and not overlapping, give way to new
RECURSIVE Replace(_, _, _)
Replace(s, old, new) ==
    IF s = <<>> THEN <<>>
    ELSE IF StartsWith(s, old)
    THEN new \o Replace(SubSeq(s, Len(old) + 1, Len(s)), old, new)
    ELSE <<Head(s)>> \o Replace(Tail(s), old, new)

\* the attributes a template may name, spelled out
Keys ==
    [name |-> <<"n", "a", "m", "e">>, email |-> <<"e", "m", "a", "i", "l">>,
     company |-> <<"c", "o", "m", "p", "a", "n", "y">>,
     role |-> <<"r", "o", "l", "e">>]

\* '{{name}}', '{{email}}', '{{company}}', '{{role}}'
Placeholder(key) == <<"{", "{">> \o Keys[key] \o <<"}", "}">>

\* the default of recipient.get('name', 'there')
There == <<"t", "h", "e", "r", "e">>

\* lines 72-76: four replace calls, each on the result of the one before
Personalize(content, recipient) ==
    LET c1 == Replace(content, Placeholder("name"), Get(recipient, "name", There))
        c2 == Replace(c1, Placeholder("email"), recipient.email)
        c3 == Replace(c2, Placeholder("company"), Get(recipient, "company", <<>>))
    IN  Replace(c3, Placeholder("role"), Get(recipient, "role", <<>>))

\* ------------------------------------------------------ send_email_campaign
\* The loop over the recipients of one SMTP session.  accept is the set of
\* positions whose server.send_message(msg) returns; the others raise and the
\* inner except continues with the next recipient.
\* (a slip: the first send_message that raises ends the loop)
RECURSIVE SendLoopStopsAtFailure(_, _, _, _)
SendLoopStopsAtFailure(recipients, accept, k, acc) ==
    IF k > Len(recipients) THEN acc
    ELSE IF k \in accept
    THEN SendLoopStopsAtFailure(recipients, accept, k + 1,
            [acc EXCEPT !.sent_count = @ + 1,
                        !.successful_emails = Append(@, recipients[k]),
                        !.attempted = Append(@, k)])
    ELSE [acc EXCEPT !.attempted = Append(@, k)]

RECURSIVE SendLoop(_, _, _, _)
SendLoop(recipients, accept, k, acc) ==
    IF k > Len(recipients) THEN acc
    ELSE SendLoop(recipients, accept, k + 1,
            IF k \in accept
            THEN [acc EXCEPT !.sent_count = @ + 1,
                             !.successful_emails = Append(@, recipients[k]),
                             !.attempted = Append(@, k)]
            ELSE [acc EXCEPT !.attempted = Append(@, k)])

\* (a slip: demo mode reports nobody as sent)
DemoModeNobody(recipients) ==
    [sent_count |-> 0, successful_emails |-> <<>>, attempted |-> <<>>,
     outcome |-> {}, sessions |-> 0, connected |-> FALSE]

\* lines 49-59: without SMTP credentials nothing is connected or sent, and
\* every recipient is returned as successful
DemoMode(recipients) ==
    [sent_count |-> Len(recipients), successful_emails |-> recipients,
     attempted |-> <<>>, outcome |-> 1..Len(recipients), sessions |-> 0,
     connected |-> FALSE]

\* send_email_campaign(subject, content, recipients) -> (sent_count,
\* successful_emails).  recipients is the sequence of the recipients' emails.
\* connectOk: SMTP(), starttls() and login() all return; quitOk: quit() returns.
\* History: attempted = positions handed to send_message, in order;
\* outcome = positions whose send outcome was success; sessions = SMTP
\* sessions opened.
SendEmailCampaign(recipients, connectOk, accept, quitOk) ==
    IF ~live THEN DemoMode(recipients)
    ELSE IF ~connectOk
    THEN [sent_count |-> 0, successful_emails |-> <<>>, attempted |-> <<>>,
          outcome |-> {}, sessions |-> 1, connected |-> FALSE]
    ELSE LET r == SendLoop(recipients, accept, 1,
                    [sent_count |-> 0, successful_emails |-> <<>>,
                     attempted |-> <<>>])
         IN  IF quitOk
             THEN [sent_count |-> r.sent_count,
                   successful_emails |-> r.successful_emails,
                   attempted |-> r.attempted,
                   outcome |-> accept \cap (1..Len(recipients)),
                   sessions |-> 1, connected |-> TRUE]
             ELSE [sent_count |-> 0, successful_emails |-> <<>>,
                   attempted |-> r.attempted,
                   outcome |-> accept \cap (1..Len(recipients)),
                   sessions |-> 1, connected |-> TRUE]

\* What the SMTP server may do with a batch of n messages.  Nothing is asked of
\* it in demo mode, and nothing after a failed connection or login.
\* raises names the call that fails when the session cannot be established.
Transport(n) ==
    IF ~live
    THEN { [connectOk |-> TRUE, raises |-> "none", accept |-> {},
            quitOk |-> TRUE] }
    ELSE { [connectOk |-> FALSE, raises |-> c, accept |-> {}, quitOk |-> TRUE] :
              c \in {"SMTP", "starttls", "login"} } \cup
         { [connectOk |-> TRUE, raises |-> "none", accept |-> a, quitOk |-> q] :
              a \in SUBSET (1..n), q \in BOOLEAN }

Call(name, to, ok) == [call |-> name, to |-> to, ok |-> ok]

\* (a slip: a session of its own for every message)
SmtpCallsPerMessage(t, n) ==
    IF ~live \/ ~t.connectOk THEN <<>>
    ELSE LET one(k) == << Call("SMTP", 0, TRUE), Call("starttls", 0, TRUE),
                          Call("login", 0, TRUE),
                          Call("send_message", k, k \in t.accept),
                          Call("quit", 0, t.quitOk) >>
             all[k \in 0..n] == IF k = 0 THEN <<>> ELSE all[k - 1] \o one(k)
         IN  all[n]

\* lines 64-96: the calls made on smtplib for a batch of n recipients, in
\* order, each with whether it returned (history).  A call that raises
\* outside the loop is the last one made.
SmtpCalls(t, n) ==
    IF ~live THEN <<>>
    ELSE IF t.raises = "SMTP" THEN << Call("SMTP", 0, FALSE) >>
    ELSE IF t.raises = "starttls"
    THEN << Call("SMTP", 0, TRUE), Call("starttls", 0, FALSE) >>
    ELSE IF t.raises = "login"
    THEN << Call("SMTP", 0, TRUE), Call("starttls", 0, TRUE),
            Call("login", 0, FALSE) >>
    ELSE << Call("SMTP", 0, TRUE), Call("starttls", 0, TRUE),
            Call("login", 0, TRUE) >>
         \o [k \in 1..n |-> Call("send_message", k, k \in t.accept)]
         \o << Call("quit", 0, t.quitOk) >>

InSeq(x, s) == \E k \in 1..Len(s) : s[k] = x

\* ------------------------------------------------------------------ locals
\* The locals of a handler.  The last nine fields are history, read by no
\* handler: attempted, outcome, sessions, connected and smtp record the SMTP
\* conversation; resolved, that the pending users were read; wrote, the
\* campaign document or fields the handler wrote; marked, the signup records
\* it set to 'contacted'; storeFailed, that one of its store calls raised.
NoReq ==
    [op |-> "none", cid |-> 0, email |-> <<>>, profile |-> <<>>,
     subject |-> <<>>, content |-> <<>>, docs |-> <<>>, sent_count |-> 0,
     successful_emails |-> <<>>, i |-> 0, flash |-> "none",
     attempted |-> <<>>, outcome |-> {}, sessions |-> 0, connected |-> FALSE,
     smtp |-> <<>>, resolved |-> FALSE, wrote |-> <<>>, marked |-> {}, storeFailed |-> FALSE]

\* Steps that touch nothing shared are taken at once, before any other
\* worker's next store operation is looked at: the SMTP conversation of a
\* batch and its return, a finished handler handing back its response, and
\* a turn of the loop of send_campaign for a record whose email is not among
\* the successful ones (lines 674-679: it makes no store call).
LocalSteps == {"sc_send", "sc_sent", "done"}

Local(q) ==
    \/ pc[q] \in LocalSteps
    \/ /\ pc[q] = "sc_mark"
       /\ req[q].i \in 1..Len(req[q].docs)
       /\ ~InSeq(users[req[q].docs[req[q].i]].email, req[q].successful_emails)

At(p, label) ==
    /\ pc[p] = label
    /\ \A q \in Procs \ {p} : ~Local(q)

\* A request is taken by the lowest idle worker (the workers are
\* interchangeable), and no more than MaxRequests are served.
Begin(p, op) ==
    /\ At(p, "idle")
    /\ \A q \in Procs : q < p => pc[q] # "idle"
    /\ nreq < MaxRequests
    /\ nreq' = nreq + 1

Failed(r) == [r EXCEPT !.storeFailed = TRUE]

\* the handler returns its redirect with the flashed message
Finish(p, r, message) ==
    /\ pc' = [pc EXCEPT ![p] = "done"]
    /\ req' = [req EXCEPT ![p] = [r EXCEPT !.flash = message]]

Goto(p, label, r) ==
    /\ pc' = [pc EXCEPT ![p] = label]
    /\ req' = [req EXCEPT ![p] = r]

Adding(label) == Cardinality({q \in Procs : pc[q] = label})

Init ==
    /\ users = <<>>
    /\ campaigns = [c \in {} |-> SavedCampaign]
    /\ nextCampaign = 0
    /\ live \in BOOLEAN
    /\ pc = [p \in Procs |-> "idle"]
    /\ req = [p \in Procs |-> NoReq]
    /\ nreq = 0

\* ------------------------------------------------------------------ signup
\* lines 176-192: normalise, validate, look the email up
SignupCheck(p) ==
    /\ Begin(p, "signup")
    /\ \E raw \in RawEmails, ok \in BOOLEAN :
            LET email == NormalizeEmail(raw)
                profile == [k \in DOMAIN RawProfile |-> Strip(RawProfile[k])]
                r == [NoReq EXCEPT !.op = "signup", !.email = email,
                                   !.profile = profile]
            IN  /\ Len(users) + Adding("signup_add") < MaxUsers
                /\ UNCHANGED <<users, campaigns, nextCampaign, live>>
                /\ IF email = <<>> THEN Finish(p, r, "email_required")
                   ELSE IF ~ok THEN Finish(p, Failed(r), "error")
                   ELSE IF ExistingUser(email) # {} THEN Finish(p, r, "already")
                   ELSE Goto(p, "signup_add", r)

\* lines 194-206: add the new document
SignupAdd(p) ==
    /\ At(p, "signup_add")
    /\ \E ok \in BOOLEAN :
            /\ UNCHANGED <<campaigns, nextCampaign, live, nreq>>
            /\ IF ok
               THEN /\ users' = Append(users, NewUser(req[p].email, req[p].profile))
                    /\ Finish(p, req[p], "thank_you")
               ELSE /\ UNCHANGED users
                    /\ Finish(p, Failed(req[p]), "error")

\* --------------------------------------------------------------- edit_user
\* lines 351-368: overwrite the status and the notes of one signup record
EditUser(p) ==
    /\ Begin(p, "edit_user")
    /\ \E uid \in UserIds, status \in Statuses, notes \in Notes, ok \in BOOLEAN :
            LET r == [NoReq EXCEPT !.op = "edit_user"]
            IN  /\ UNCHANGED <<campaigns, nextCampaign, live>>
                /\ IF ok /\ uid <= Len(users)
                   THEN /\ users' = [users EXCEPT ![uid] =
                                        Update(@, [status |-> status,
                                                   notes |-> notes])]
                        /\ Finish(p, r, "user_updated")
                   ELSE /\ UNCHANGED users
                        /\ Finish(p, Failed(r), "error")

\* -------------------------------------------------------------- save_email
\* lines 518-529 and 567-585: validate; action 'save_draft' adds a draft
SaveDraft(p) ==
    /\ Begin(p, "save_draft")
    /\ \E form \in RawForms, ok \in BOOLEAN :
            LET subject == Strip(form[1])
                content == Strip(form[2])
                r == [NoReq EXCEPT !.op = "save_draft", !.subject = subject,
                                   !.content = content]
            IN  /\ nextCampaign + Adding("se_add") < MaxCampaigns
                /\ UNCHANGED <<users, live>>
                /\ IF Missing(subject, content)
                   THEN /\ UNCHANGED <<campaigns, nextCampaign>>
                        /\ Finish(p, r, "required")
                   ELSE IF ~ok
                   THEN /\ UNCHANGED <<campaigns, nextCampaign>>
                        /\ Finish(p, Failed(r), "error")
                   ELSE /\ campaigns' = AddCampaign(DraftCampaign(subject, content))
                        /\ nextCampaign' = nextCampaign + 1
                        /\ Finish(p, [r EXCEPT !.cid = nextCampaign + 1,
                                        !.wrote = <<DraftCampaign(subject, content)>>],
                                  "draft_saved")

\* lines 518-543: validate; action 'send_now' counts the pending users
SendNowQuery(p) ==
    /\ Begin(p, "send_now")
    /\ \E form \in RawForms, ok \in BOOLEAN :
            LET subject == Strip(form[1])
                content == Strip(form[2])
                r == [NoReq EXCEPT !.op = "send_now", !.subject = subject,
                                   !.content = content]
            IN  /\ nextCampaign + Adding("se_add") < MaxCampaigns
                /\ UNCHANGED <<users, campaigns, nextCampaign, live>>
                /\ IF Missing(subject, content)
                   THEN Finish(p, r, "required")
                   ELSE IF ~ok THEN Finish(p, Failed(r), "send_error")
                   ELSE Goto(p, "se_add",
                             [r EXCEPT !.docs = PendingDocs, !.resolved = TRUE,
                                       !.sent_count = Len(PendingDocs)])

\* lines 545-565: record the campaign as sent
SendNowAdd(p) ==
    /\ At(p, "se_add")
    /\ \E ok \in BOOLEAN :
            LET doc == SentNowCampaign(req[p].subject, req[p].content,
                                       req[p].sent_count)
            IN  /\ UNCHANGED <<users, live, nreq>>
                /\ IF ok
                   THEN /\ campaigns' = AddCampaign(doc)
                        /\ nextCampaign' = nextCampaign + 1
                        /\ Finish(p, [req[p] EXCEPT !.cid = nextCampaign + 1,
                                                    !.wrote = <<doc>>],
                                  "sent_to_count")
                   ELSE /\ UNCHANGED <<campaigns, nextCampaign>>
                        /\ Finish(p, Failed(req[p]), "send_error")

\* --------------------------------------------------------- excelsior_emails
\* lines 401-509: list the campaigns.  Only the path on which reading the
\* collection raises writes to the store: it adds the saved campaign.
ExcelsiorEmails(p) ==
    \E env \in {"no_key", "no_connection", "listed", "get_failed",
                "get_and_add_failed"} :
        LET r == [NoReq EXCEPT !.op = "excelsior_emails"]
        IN  /\ Begin(p, "excelsior_emails")
            /\ UNCHANGED <<users, live>>
            /\ IF env = "get_failed" /\ nextCampaign + Adding("se_add") < MaxCampaigns
               THEN /\ campaigns' = AddCampaign(SavedCampaign)
                    /\ nextCampaign' = nextCampaign + 1
                    /\ Finish(p, [r EXCEPT !.cid = nextCampaign + 1,
                                           !.wrote = <<SavedCampaign>>],
                              "loaded")
               ELSE /\ UNCHANGED <<campaigns, nextCampaign>>
                    /\ Finish(p, r,
                          CASE env = "no_key" -> "not_configured"
                            [] env = "no_connection" -> "connection_error"
                            [] env = "listed" /\ DOMAIN campaigns # {} -> "loaded"
                            [] env = "listed" -> "none"
                            [] OTHER -> "unable")

\* (a slip: a test message that is accepted is recorded as a sent campaign)
TestEmailRecorded(p) ==
    /\ Begin(p, "test_email")
    /\ \E addr \in {<<>>, <<"t">>}, t \in Transport(1) :
            LET r == [NoReq EXCEPT !.op = "test_email", !.email = addr]
                s == SendEmailCampaign(<<addr>>, t.connectOk, t.accept, t.quitOk)
                done == addr # <<>> /\ s.sent_count > 0
            IN  /\ UNCHANGED <<users, live>>
                /\ campaigns' = IF done
                                THEN AddCampaign(SentNowCampaign(<<"T">>, <<"T">>, 1))
                                ELSE campaigns
                /\ nextCampaign' = IF done THEN nextCampaign + 1 ELSE nextCampaign
                /\ IF addr = <<>> THEN Finish(p, r, "address_required")
                   ELSE Finish(p, [r EXCEPT !.sent_count = s.sent_count,
                                     !.successful_emails = s.successful_emails,
                                     !.attempted = s.attempted,
                                     !.outcome = s.outcome,
                                     !.sessions = s.sessions,
                                     !.connected = s.connected,
                                     !.smtp = SmtpCalls(t, 1)],
                               IF s.sent_count > 0 THEN "test_sent" ELSE "test_failed")

\* -------------------------------------------------------------- test_email
\* lines 596-619: one synthetic recipient through send_email_campaign
TestEmail(p) ==
    /\ Begin(p, "test_email")
    /\ \E addr \in {<<>>, <<"t">>}, t \in Transport(1) :
            LET r == [NoReq EXCEPT !.op = "test_email", !.email = addr]
                s == SendEmailCampaign(<<addr>>, t.connectOk, t.accept, t.quitOk)
            IN  /\ UNCHANGED <<users, campaigns, nextCampaign, live>>
                /\ IF addr = <<>> THEN Finish(p, r, "address_required")
                   ELSE Finish(p, [r EXCEPT !.sent_count = s.sent_count,
                                     !.successful_emails = s.successful_emails,
                                     !.attempted = s.attempted,
                                     !.outcome = s.outcome,
                                     !.sessions = s.sessions,
                                     !.connected = s.connected,
                                     !.smtp = SmtpCalls(t, 1)],
                               IF s.sent_count > 0 THEN "test_sent" ELSE "test_failed")

\* --------------------------------------------------------- delete_campaign
\* lines 752-762
DeleteCampaign(p) ==
    /\ Begin(p, "delete_campaign")
    /\ \E cid \in CampaignIds, ok \in BOOLEAN :
            LET r == [NoReq EXCEPT !.op = "delete_campaign", !.cid = cid]
            IN  /\ UNCHANGED <<users, nextCampaign, live>>
                /\ IF ok
                   THEN /\ campaigns' = RemoveCampaign(cid)
                        /\ Finish(p, r, "deleted")
                   ELSE /\ UNCHANGED campaigns
                        /\ Finish(p, Failed(r), "delete_error")

\* ----------------------------------------------------------- send_campaign
\* lines 624-640: read the campaign, reject unless it is a draft
SendCampaignGet(p) ==
    /\ Begin(p, "send_campaign")
    /\ \E cid \in CampaignIds, ok \in BOOLEAN :
            LET r == [NoReq EXCEPT !.op = "send_campaign", !.cid = cid]
            IN  /\ UNCHANGED <<users, campaigns, nextCampaign, live>>
                /\ IF ~ok THEN Finish(p, Failed(r), "error")
                   ELSE IF cid \notin DOMAIN campaigns THEN Finish(p, r, "not_found")
                   ELSE IF ~IsDraft(campaigns[cid]) THEN Finish(p, r, "not_draft")
                   ELSE Goto(p, "sc_query",
                             [r EXCEPT !.subject = campaigns[cid].subject,
                                       !.content = campaigns[cid].content])

\* (a slip: a query that raises is taken for a batch that reached nobody)
SendCampaignQueryFailureAsBatch(p) ==
    /\ At(p, "sc_query")
    /\ \E ok \in BOOLEAN :
            /\ UNCHANGED <<users, campaigns, nextCampaign, live, nreq>>
            /\ IF ~ok THEN Goto(p, "sc_update", Failed(req[p]))
               ELSE IF PendingDocs = <<>>
               THEN Finish(p, [req[p] EXCEPT !.resolved = TRUE], "no_pending")
               ELSE Goto(p, "sc_send",
                         [req[p] EXCEPT !.docs = PendingDocs, !.resolved = TRUE])

\* lines 642-651 and 696-697: resolve the pending users
SendCampaignQuery(p) ==
    /\ At(p, "sc_query")
    /\ \E ok \in BOOLEAN :
            /\ UNCHANGED <<users, campaigns, nextCampaign, live, nreq>>
            /\ IF ~ok THEN Finish(p, Failed(req[p]), "error")
               ELSE IF PendingDocs = <<>>
               THEN Finish(p, [req[p] EXCEPT !.resolved = TRUE], "no_pending")
               ELSE Goto(p, "sc_send",
                         [req[p] EXCEPT !.docs = PendingDocs, !.resolved = TRUE])

\* line 655: send_email_campaign(subject, content, recipients)
SendCampaignSend(p) ==
    /\ At(p, "sc_send")
    /\ \E t \in Transport(Len(req[p].docs)) :
            LET s == SendEmailCampaign(EmailsOf(req[p].docs), t.connectOk, t.accept,
                                       t.quitOk)
            IN  /\ UNCHANGED <<users, campaigns, nextCampaign, live, nreq>>
                /\ Goto(p, "sc_sent",
                        [req[p] EXCEPT !.sent_count = s.sent_count,
                                       !.successful_emails = s.successful_emails,
                                       !.attempted = s.attempted,
                                       !.outcome = s.outcome,
                                       !.sessions = s.sessions,
                                       !.connected = s.connected,
                                       !.smtp = SmtpCalls(t, Len(req[p].docs))])

\* lines 98-102, 655: send_email_campaign returns its count and its list to
\* the handler; the calls it made on its session end with it
SendCampaignSent(p) ==
    /\ At(p, "sc_sent")
    /\ UNCHANGED <<users, campaigns, nextCampaign, live, nreq>>
    /\ Goto(p, "sc_update", [req[p] EXCEPT !.smtp = <<>>])

\* (a slip: the campaign write creates the document when it is missing)
SendCampaignUpdateUpserts(p) ==
    /\ At(p, "sc_update")
    /\ \E ok \in BOOLEAN :
            LET cid == req[p].cid
                fields == SentFields(req[p].sent_count)
            IN  /\ UNCHANGED <<users, nextCampaign, live, nreq>>
                /\ IF ok
                   THEN /\ campaigns' =
                             [c \in DOMAIN campaigns \cup {cid} |->
                                 IF c # cid THEN campaigns[c]
                                 ELSE IF c \in DOMAIN campaigns
                                 THEN Update(campaigns[c], fields)
                                 ELSE fields]
                        /\ Goto(p, "sc_mark",
                                [req[p] EXCEPT !.wrote = <<fields>>, !.i = 1])
                   ELSE /\ UNCHANGED campaigns
                        /\ Finish(p, Failed(req[p]), "error")

\* (a slip: a campaign write that raises is passed over)
SendCampaignUpdateFailurePassed(p) ==
    /\ At(p, "sc_update")
    /\ \E ok \in BOOLEAN :
            LET cid == req[p].cid
                fields == SentFields(req[p].sent_count)
            IN  /\ UNCHANGED <<users, nextCampaign, live, nreq>>
                /\ IF ok /\ cid \in DOMAIN campaigns
                   THEN /\ campaigns' = [campaigns EXCEPT ![cid] = Update(@, fields)]
                        /\ Goto(p, "sc_mark",
                                [req[p] EXCEPT !.wrote = <<fields>>, !.i = 1])
                   ELSE /\ UNCHANGED campaigns
                        /\ Goto(p, "sc_mark",
                                [req[p] EXCEPT !.storeFailed = TRUE, !.i = 1])

\* lines 660-665: write the campaign; a missing document raises
SendCampaignUpdate(p) ==
    /\ At(p, "sc_update")
    /\ \E ok \in BOOLEAN :
            LET cid == req[p].cid
                fields == SentFields(req[p].sent_count)
            IN  /\ UNCHANGED <<users, nextCampaign, live, nreq>>
                /\ IF ok /\ cid \in DOMAIN campaigns
                   THEN /\ campaigns' = [campaigns EXCEPT ![cid] = Update(@, fields)]
                        /\ Goto(p, "sc_mark",
                                [req[p] EXCEPT !.wrote = <<fields>>, !.i = 1])
                   ELSE /\ UNCHANGED campaigns
                        /\ Finish(p, Failed(req[p]), "error")

\* lines 687-695: the message flashed after the batch
SendCampaignFlash(r) ==
    IF ~live THEN "demo_sent"
    ELSE IF r.sent_count = Len(r.docs) THEN "sent_all"
    ELSE IF r.sent_count > 0 THEN "partial"
    ELSE "failed"

\* (a slip: a failed status write ends the loop and the request)
\* (a slip: a hit marks every record that is 'pending' at the time of the write)
SendCampaignMarkAllPending(p) ==
    /\ At(p, "sc_mark")
    /\ \E ok \in BOOLEAN :
            LET r == req[p]
                d == r.docs[r.i]
                hit == InSeq(users[d].email, r.successful_emails)
                r2 == [r EXCEPT !.i = @ + 1,
                                !.marked = IF hit /\ ok THEN @ \cup {d} ELSE @,
                                !.storeFailed = @ \/ (hit /\ ~ok)]
            IN  /\ hit \/ ok
                /\ UNCHANGED <<campaigns, nextCampaign, live, nreq>>
                /\ users' = IF hit /\ ok
                            THEN [u \in DOMAIN users |->
                                    IF u = d \/ users[u].status = "pending"
                                    THEN Update(users[u], [status |-> "contacted"])
                                    ELSE users[u]]
                            ELSE users
                /\ IF r.i = Len(r.docs)
                   THEN Finish(p, r2, SendCampaignFlash(r2))
                   ELSE Goto(p, "sc_mark", r2)

\* (a slip: a status write that raises ends the loop)
SendCampaignMarkAborts(p) ==
    /\ At(p, "sc_mark")
    /\ \E ok \in BOOLEAN :
            LET r == req[p]
                d == r.docs[r.i]
                hit == InSeq(users[d].email, r.successful_emails)
                r2 == [r EXCEPT !.i = @ + 1,
                                !.marked = IF hit /\ ok THEN @ \cup {d} ELSE @]
            IN  /\ hit \/ ok
                /\ UNCHANGED <<campaigns, nextCampaign, live, nreq>>
                /\ users' = IF hit /\ ok
                            THEN [users EXCEPT ![d] = Update(@, [status |-> "contacted"])]
                            ELSE users
                /\ IF hit /\ ~ok THEN Finish(p, Failed(r2), "error")
                   ELSE IF r.i = Len(r.docs)
                   THEN Finish(p, r2, SendCampaignFlash(r2))
                   ELSE Goto(p, "sc_mark", r2)

\* lines 668-685: one turn of the loop over the resolved documents
SendCampaignMark(p) ==
    /\ At(p, "sc_mark")
    /\ \E ok \in BOOLEAN :
            LET r == req[p]
                d == r.docs[r.i]
                hit == InSeq(users[d].email, r.successful_emails)
                r2 == [r EXCEPT !.i = @ + 1,
                                !.marked = IF hit /\ ok THEN @ \cup {d} ELSE @,
                                !.storeFailed = @ \/ (hit /\ ~ok)]
            IN  /\ hit \/ ok
                /\ UNCHANGED <<campaigns, nextCampaign, live, nreq>>
                /\ users' = IF hit /\ ok
                            THEN [users EXCEPT ![d] = Update(@, [status |-> "contacted"])]
                            ELSE users
                /\ IF r.i = Len(r.docs)
                   THEN Finish(p, r2, SendCampaignFlash(r2))
                   ELSE Goto(p, "sc_mark", r2)

Return(p) ==
    /\ At(p, "done")
    /\ pc' = [pc EXCEPT ![p] = "idle"]
    /\ req' = [req EXCEPT ![p] = NoReq]
    /\ UNCHANGED <<users, campaigns, nextCampaign, live, nreq>>

Next ==
    \E p \in Procs :
        \/ SignupCheck(p)
        \/ SignupAdd(p)
        \/ EditUser(p)
        \/ SaveDraft(p)
        \/ SendNowQuery(p)
        \/ SendNowAdd(p)
        \/ ExcelsiorEmails(p)
        \/ TestEmail(p)
        \/ DeleteCampaign(p)
        \/ SendCampaignGet(p)
        \/ SendCampaignQuery(p)
        \/ SendCampaignSend(p)
        \/ SendCampaignSent(p)
        \/ SendCampaignUpdate(p)
        \/ SendCampaignMark(p)
        \/ Return(p)

Spec == Init /\ [][Next]_vars

\* ================================================================ FairSpec
\* A request that has been taken is carried on by its worker thread: each
\* store call and the SMTP conversation return or raise, and the handler then
\* takes its next step.
Progress(p) ==
    \/ SignupAdd(p)
    \/ SendNowAdd(p)
    \/ SendCampaignQuery(p)
    \/ SendCampaignSend(p)
    \/ SendCampaignSent(p)
    \/ SendCampaignUpdate(p)
    \/ SendCampaignMark(p)
    \/ Return(p)

FairSpec == Spec /\ \A p \in Procs : WF_vars(Progress(p))

\* ============================================================== NoEditSpec
\* The behaviours in which the admin never edits a signup record: every
\* handler but edit_user.  A record is then 'contacted' only if a dispatch
\* has set it so.
NoEditNext ==
    \E p \in Procs :
        \/ SignupCheck(p)
        \/ SignupAdd(p)
        \/ SaveDraft(p)
        \/ SendNowQuery(p)
        \/ SendNowAdd(p)
        \/ ExcelsiorEmails(p)
        \/ TestEmail(p)
        \/ DeleteCampaign(p)
        \/ SendCampaignGet(p)
        \/ SendCampaignQuery(p)
        \/ SendCampaignSend(p)
        \/ SendCampaignSent(p)
        \/ SendCampaignUpdate(p)
        \/ SendCampaignMark(p)
        \/ Return(p)

NoEditSpec == Init /\ [][NoEditNext]_vars

\* ============================================================== RenderSpec
\* send_email_campaign with the content in full: the store holds one signup
\* record and one draft, and a worker sends the draft's content to the record.
Templates ==
    { <<"H">>,
      Placeholder("name"),
      Placeholder("name") \o <<" ">> \o Placeholder("name"),
      <<"{", "{", "x", "}", "}">> \o Placeholder("email"),
      Placeholder("company") \o Placeholder("role"),
      <<"{", "{">> \o Placeholder("name") \o <<"}", "}">> }

\* name, company and role as signup() stores them (stripped form fields)
Profiles ==
    [name : { <<>>, <<"N">>, Keys.role, Placeholder("role") },
     company : { <<>>, <<"C">> },
     role : { <<>>, <<"R">> }]

RenderInit ==
    /\ users \in { <<NewUser(<<"a">>, profile)>> : profile \in Profiles }
    /\ campaigns \in { [c \in {1} |-> DraftCampaign(<<"H">>, content)] :
                          content \in Templates }
    /\ nextCampaign = 1
    /\ live \in BOOLEAN
    /\ pc = [p \in Procs |-> "idle"]
    /\ req = [p \in Procs |-> NoReq]
    /\ nreq = 0

\* the locals of send_email_campaign; msgs is history: the contents of the
\* messages handed to server.send_message
Batch(content, recipient) ==
    [op |-> "send_email_campaign", content |-> content,
     recipient |-> recipient, msgs |-> <<>>, sent_count |-> 0,
     successful_emails |-> <<>>, flash |-> "none"]

\* lines 49-59: demo mode prints and reports every recipient as sent
DemoSend(p) ==
    /\ Begin(p, "send_email_campaign")
    /\ ~live
    /\ UNCHANGED <<users, campaigns, nextCampaign, live>>
    /\ Finish(p, [Batch(campaigns[1].content, users[1]) EXCEPT
                    !.sent_count = 1,
                    !.successful_emails = <<users[1].email>>],
              "returned")

\* lines 61-102 for one recipient: the content is personalized, wrapped in a
\* message and handed to send_message, which returns or raises
LiveSend(p) ==
    /\ Begin(p, "send_email_campaign")
    /\ live
    /\ UNCHANGED <<users, campaigns, nextCampaign, live>>
    /\ \E accepted \in BOOLEAN :
        LET content == campaigns[1].content
            recipient == users[1]
            msg == Personalize(content, recipient)
        IN  Finish(p, [Batch(content, recipient) EXCEPT
                        !.msgs = <<msg>>,
                        !.sent_count = IF accepted THEN 1 ELSE 0,
                        !.successful_emails =
                            IF accepted THEN <<recipient.email>> ELSE <<>>],
                   "returned")

RenderNext == \E p \in Procs : DemoSend(p) \/ LiveSend(p) \/ Return(p)

RenderSpec == RenderInit /\ [][RenderNext]_vars

\* ------------------------------------------------- recipients as documents
\* A recipient is the dict of a store document (doc.to_dict(), line 648) or
\* the dict test_email() builds, which has no company and no role: only
\* 'email' is read by key, the other attributes by get() with a default.
\* Each of name, company and role is absent, empty or set.
Plain == [name |-> <<"N">>, company |-> <<"C">>, role |-> <<"R">>]

Documents ==
    { [k \in {"email", "status"} \cup { a \in DOMAIN Plain : has[a] # "absent" } |->
          IF k = "email" THEN <<"a">>
          ELSE IF k = "status" THEN "pending"
          ELSE IF has[k] = "empty" THEN <<>>
          ELSE Plain[k]] :
      has \in [DOMAIN Plain -> {"absent", "empty", "set"}] }

RecipientInit ==
    /\ users \in { <<doc>> : doc \in Documents }
    /\ campaigns \in { [c \in {1} |-> DraftCampaign(<<"H">>, content)] :
                          content \in Templates }
    /\ nextCampaign = 1
    /\ live \in BOOLEAN
    /\ pc = [p \in Procs |-> "idle"]
    /\ req = [p \in Procs |-> NoReq]
    /\ nreq = 0

RecipientSpec == RecipientInit /\ [][RenderNext]_vars

\* ================================================================== claims
Finished(p, ops) == pc[p] = "done" /\ req[p].op \in ops

Dispatches == {"send_campaign", "send_now"}

\* the signup records a dispatch would mark, given what the batch returned
Reached(docs, successful_emails) ==
    { docs[k] : k \in { j \in 1..Len(docs) :
                          InSeq(users[docs[j]].email, successful_emails) } }

\* C1: the recipients_count a dispatch stores on the campaign is the number of
\* recipients whose send succeeded.
C1_CountIsSuccessCount ==
    \A p \in Procs :
        Finished(p, Dispatches) /\ req[p].wrote # <<>> =>
            req[p].wrote[1].recipients_count = Cardinality(req[p].outcome)

\* C2: when all store writes of a send_campaign dispatch succeed, a resolved
\* record is set to 'contacted' by it if and only if its send succeeded.
C2_ContactedIffSendSucceeded ==
    \A p \in Procs :
        Finished(p, {"send_campaign"}) /\ ~req[p].storeFailed =>
            \A k \in 1..Len(req[p].docs) :
                req[p].docs[k] \in req[p].marked <=> k \in req[p].outcome

\* C3: a dispatch whose SMTP session cannot be opened or authenticated has
\* sent_count 0, sets the campaign to 'failed' and changes no signup record.
C3_SessionFailureMarksFailed ==
    \A p \in Procs :
        /\ Finished(p, Dispatches)
        /\ req[p].docs # <<>>
        /\ req[p].sessions = 1 /\ ~req[p].connected
        /\ ~req[p].storeFailed
        => /\ req[p].sent_count = 0
           /\ req[p].wrote # <<>> /\ req[p].wrote[1].status = "failed"
           /\ req[p].marked = {}

\* C4: a dispatch that resolves no pending recipient writes no campaign,
\* transmits nothing and answers 'no recipients'.
C4_NoRecipientsLeavesCampaign ==
    \A p \in Procs :
        /\ Finished(p, Dispatches)
        /\ req[p].resolved /\ req[p].docs = <<>>
        /\ ~req[p].storeFailed
        => /\ req[p].wrote = <<>>
           /\ req[p].attempted = <<>>
           /\ req[p].flash = "no_pending"

\* C5: of the send_campaign requests on one draft, at most one gets as far as
\* writing the campaign's status, sent time and recipient count.
C5_DraftSentOnce ==
    \A p, q \in Procs :
        /\ p # q
        /\ req[p].op = "send_campaign" /\ req[q].op = "send_campaign"
        /\ req[p].cid = req[q].cid
        => ~(req[p].wrote # <<>> /\ req[q].wrote # <<>>)

\* C6: no two signup records have the same email.
C6_EmailsUnique ==
    \A i, j \in 1..Len(users) : i # j => users[i].email # users[j].email

\* C7: in live mode, when the send to one recipient fails, every recipient is
\* still attempted in order and the batch returns all the successes.
C7_FailureDoesNotAbortBatch ==
    \A p \in Procs :
        /\ req[p].op = "send_campaign"
        /\ pc[p] \in {"sc_update", "sc_mark", "done"}
        /\ live /\ req[p].connected
        /\ \E k \in 1..Len(req[p].docs) : k \notin req[p].outcome
        => /\ req[p].attempted = [k \in 1..Len(req[p].docs) |-> k]
           /\ req[p].sent_count = Cardinality(req[p].outcome)
           /\ \A k \in 1..Len(req[p].docs) :
                k \in req[p].outcome =>
                    InSeq(users[req[p].docs[k]].email, req[p].successful_emails)

\* C8: save_email with 'send_now' over a non-empty pending set ends as saving
\* a draft and sending it with send_campaign would, for some behaviour of the
\* transport: the same campaign status and count, and exactly the reached
\* recipients set to 'contacted'.
C8_SendNowIsSendCampaign ==
    \A p \in Procs :
        Finished(p, {"send_now"}) /\ req[p].wrote # <<>> /\ req[p].docs # <<>> =>
            LET docs == req[p].docs
                doc == req[p].wrote[1]
            IN  \E t \in Transport(Len(docs)) :
                    LET s == SendEmailCampaign(EmailsOf(docs), t.connectOk,
                                               t.accept, t.quitOk)
                    IN  /\ doc.status = SentFields(s.sent_count).status
                        /\ doc.recipients_count = s.sent_count
                        /\ req[p].marked = Reached(docs, s.successful_emails)

\* C9: every campaign with status 'sent' has a sent time and a recipient count
\* greater than zero.
C9_SentHasTimeAndCount ==
    \A c \in DOMAIN campaigns :
        campaigns[c].status = "sent" =>
            campaigns[c].sent_at # "None" /\ campaigns[c].recipients_count > 0

\* C10: every campaign with status 'draft' has no sent time and recipient
\* count 0.
C10_DraftHasNoTimeNoCount ==
    \A c \in DOMAIN campaigns :
        campaigns[c].status = "draft" =>
            campaigns[c].sent_at = "None" /\ campaigns[c].recipients_count = 0

\* a draft whose batch has gone out and is about to be recorded, beside a
\* campaign already sent
C10_Witness ==
    \E p \in Procs, c \in DOMAIN campaigns :
        /\ pc[p] = "sc_update" /\ req[p].sent_count > 0
        /\ req[p].cid \in DOMAIN campaigns
        /\ campaigns[req[p].cid].status = "draft"
        /\ campaigns[c].status = "sent" /\ campaigns[c].recipients_count > 0

\* C11: a send_campaign request that reads a campaign which does not exist or
\* whose status is not 'draft' is rejected there: it transmits nothing, opens
\* no session, and leaves the campaigns and the signup records as they were.
C11_NonDraftRejected ==
    [][\A p \in Procs :
          /\ pc[p] = "idle" /\ req'[p].op = "send_campaign"
          /\ ~req'[p].storeFailed
          /\ \/ req'[p].cid \notin DOMAIN campaigns
             \/ campaigns[req'[p].cid].status # "draft"
          => /\ pc'[p] = "done"
             /\ req'[p].flash \in {"not_found", "not_draft"}
             /\ users' = users /\ campaigns' = campaigns
             /\ req'[p].attempted = <<>> /\ req'[p].sessions = 0
             /\ req'[p].wrote = <<>> /\ req'[p].marked = {}]_vars

\* a send_campaign turned away from a campaign already sent, with a signup
\* still pending
C11_Witness ==
    \E p \in Procs :
        /\ Finished(p, {"send_campaign"}) /\ req[p].flash = "not_draft"
        /\ req[p].cid \in DOMAIN campaigns
        /\ campaigns[req[p].cid].status = "sent"
        /\ PendingDocs # <<>>

\* the template with every placeholder, read from the left, replaced by the
\* recipient's attribute of that name, and all else as it stands
RECURSIVE Substituted(_, _)
Substituted(s, recipient) ==
    IF s = <<>> THEN <<>>
    ELSE LET named == { k \in DOMAIN Keys : StartsWith(s, Placeholder(k)) }
         IN  IF named = {} THEN <<Head(s)>> \o Substituted(Tail(s), recipient)
             ELSE LET k == CHOOSE k \in named : TRUE
                  IN  recipient[k] \o
                      Substituted(SubSeq(s, Len(Placeholder(k)) + 1, Len(s)),
                                  recipient)

\* C12: the content of every message handed to the transport is the template
\* with each {{name}}, {{email}}, {{company}} and {{role}} replaced by the
\* recipient's attribute and every other text, other {{token}}s included, left
\* as it stands.
C12_ContentPersonalized ==
    \A p \in Procs :
        Finished(p, {"send_email_campaign"}) =>
            \A k \in 1..Len(req[p].msgs) :
                req[p].msgs[k] = Substituted(req[p].content, req[p].recipient)

\* C13: in demo mode a send_campaign over a non-empty pending set, none of
\* whose store calls raises, opens no SMTP session and hands over no message,
\* writes the campaign as 'sent' with the number of resolved recipients as its
\* count, and sets every resolved record to 'contacted'.
C13_DemoModeContactsAll ==
    \A p \in Procs :
        /\ Finished(p, {"send_campaign"})
        /\ ~live /\ req[p].docs # <<>> /\ ~req[p].storeFailed
        => /\ req[p].sessions = 0 /\ req[p].attempted = <<>>
           /\ req[p].sent_count = Len(req[p].docs)
           /\ req[p].wrote # <<>>
           /\ req[p].wrote[1].status = "sent"
           /\ req[p].wrote[1].recipients_count = Len(req[p].docs)
           /\ req[p].marked = { req[p].docs[k] : k \in 1..Len(req[p].docs) }
           /\ req[p].cid \in DOMAIN campaigns =>
                 campaigns[req[p].cid].status = "sent"

\* a demo-mode send_campaign that has finished over two pending signups
C13_Witness ==
    \E p \in Procs :
        /\ Finished(p, {"send_campaign"})
        /\ ~live /\ Len(req[p].docs) = 2 /\ ~req[p].storeFailed
        /\ \A d \in req[p].marked : users[d].status = "contacted"
        /\ req[p].flash = "demo_sent"

\* C14: a signup whose lookup finds a record with the normalized email is
\* rejected there: no record is added and every record stays as it was.
C14_DuplicateSignupRejected ==
    [][\A p \in Procs :
          /\ pc[p] = "idle" /\ req'[p].op = "signup"
          /\ ~req'[p].storeFailed
          /\ \E j \in 1..Len(users) : users[j].email = req'[p].email
          => /\ pc'[p] = "done" /\ req'[p].flash = "already"
             /\ users' = users]_vars

\* a signup turned away because its email is on record, the record having
\* been contacted and annotated since
C14_Witness ==
    \E p \in Procs, j \in 1..Len(users) :
        /\ Finished(p, {"signup"}) /\ req[p].flash = "already"
        /\ users[j].email = req[p].email
        /\ users[j].status = "contacted" /\ users[j].notes # <<>>

\* C15: with no admin edit in between, a record that a dispatch has set to
\* 'contacted' is in the recipients of no dispatch that resolves its
\* recipients afterwards, and a dispatch hands messages to its resolved
\* recipients only.
C15_ContactedNotResolvedAgain ==
    [][\A p \in Procs :
          /\ ~req[p].resolved /\ req'[p].resolved =>
                \A k \in 1..Len(req'[p].docs) :
                    users[req'[p].docs[k]].status # "contacted"
          /\ req'[p].op \in Dispatches =>
                \A k \in 1..Len(req'[p].attempted) :
                    req'[p].attempted[k] \in 1..Len(req'[p].docs)]_vars

\* a send_campaign whose query, made after an earlier dispatch has contacted
\* the one signup, resolves nobody
C15_Witness ==
    \E p \in Procs :
        /\ Finished(p, {"send_campaign"}) /\ req[p].flash = "no_pending"
        /\ users # <<>>
        /\ \A d \in 1..Len(users) : users[d].status = "contacted"

\* C16: in the loop of send_campaign over the resolved records, a status
\* write that fails is skipped: the campaign stays as written, the loop goes
\* on to the next record, and the write for each record whose email is among
\* the successful ones is made, whatever failed before it.
C16_FailedMarkIsSkipped ==
    [][\A p \in Procs :
          pc[p] = "sc_mark" /\ req'[p] # req[p] =>
              LET r == req[p]
                  d == r.docs[r.i]
                  hit == InSeq(users[d].email, r.successful_emails)
              IN  /\ campaigns' = campaigns
                  /\ req'[p].wrote = r.wrote /\ r.wrote # <<>>
                  /\ req'[p].i = r.i + 1
                  /\ IF r.i < Len(r.docs) THEN pc'[p] = "sc_mark"
                     ELSE pc'[p] = "done" /\ req'[p].flash # "error"
                  /\ \A j \in 1..Len(users) : j # d => users'[j] = users[j]
                  /\ hit =>
                        \/ /\ users'[d].status = "contacted"
                           /\ req'[p].marked = r.marked \cup {d}
                        \/ /\ req'[p].storeFailed
                           /\ users' = users /\ req'[p].marked = r.marked]_vars

\* a send_campaign that has finished: both resolved signups were reached, the
\* status write of the first failed, the second is 'contacted' and the
\* campaign is 'sent'
C16_Witness ==
    \E p \in Procs :
        /\ Finished(p, {"send_campaign"}) /\ req[p].storeFailed
        /\ req[p].docs = <<1, 2>> /\ Len(req[p].successful_emails) = 2
        /\ req[p].marked = {2} /\ users[2].status = "contacted"
        /\ users[1].status = "pending"
        /\ req[p].cid \in DOMAIN campaigns
        /\ campaigns[req[p].cid].status = "sent"
        /\ req[p].flash # "error"

\* C17: when the query for the pending users raises, in send_campaign or in
\* save_email with 'send_now', the request ends there with an error message:
\* no session is opened and no message handed over, no campaign is written
\* or added, and no signup record is changed.
C17_QueryFailureAborts ==
    [][\A p \in Procs :
          /\ req'[p].storeFailed
          /\ \/ pc[p] = "sc_query"
             \/ pc[p] = "idle" /\ req'[p].op = "send_now"
          => /\ pc'[p] = "done"
             /\ req'[p].flash \in {"error", "send_error"}
             /\ users' = users /\ campaigns' = campaigns
             /\ nextCampaign' = nextCampaign
             /\ ~req'[p].resolved
             /\ req'[p].attempted = <<>> /\ req'[p].sessions = 0
             /\ req'[p].wrote = <<>> /\ req'[p].marked = {}]_vars

\* a send_campaign ended by the failure of its pending query, the draft still
\* a draft and a signup still pending
C17_Witness ==
    \E p \in Procs :
        /\ Finished(p, {"send_campaign"})
        /\ req[p].storeFailed /\ req[p].subject # <<>>
        /\ req[p].cid \in DOMAIN campaigns
        /\ campaigns[req[p].cid].status = "draft"
        /\ PendingDocs # <<>>

\* C18: save_email with a subject or a content that is empty, and test_email
\* with no address, are rejected on validation: no session is opened and no
\* message handed over, no campaign is added or written, and no signup
\* record is changed.
C18_InvalidFormRejected ==
    [][\A p \in Procs :
          /\ pc[p] = "idle"
          /\ \/ /\ req'[p].op \in {"save_draft", "send_now"}
                /\ req'[p].subject = <<>> \/ req'[p].content = <<>>
             \/ req'[p].op = "test_email" /\ req'[p].email = <<>>
          => /\ pc'[p] = "done"
             /\ req'[p].flash \in {"required", "address_required"}
             /\ users' = users /\ campaigns' = campaigns
             /\ nextCampaign' = nextCampaign
             /\ req'[p].attempted = <<>> /\ req'[p].sessions = 0
             /\ req'[p].wrote = <<>> /\ req'[p].marked = {}]_vars

\* a save_email with 'send_now' turned away for its empty content while a
\* signup is pending
C18_Witness ==
    \E p \in Procs :
        /\ Finished(p, {"send_now"}) /\ req[p].flash = "required"
        /\ req[p].subject # <<>> /\ req[p].content = <<>>
        /\ PendingDocs # <<>>

\* C19: a step of a dispatch, a draft save, a test email or a campaign delete
\* adds and removes no signup record and changes no field of one, but that a
\* send_campaign may set to 'contacted' the status of a resolved record whose
\* message the transport accepted.
C19_OnlyReachedAreContacted ==
    [][\A p \in Procs :
          LET op == IF pc[p] = "idle" THEN req'[p].op ELSE req[p].op
          IN  /\ req'[p] # req[p]
              /\ op \in Dispatches \cup
                        {"save_draft", "test_email", "delete_campaign"}
              => /\ Len(users') = Len(users)
                 /\ \A j \in 1..Len(users) :
                       \/ users'[j] = users[j]
                       \/ /\ op \in Dispatches
                          /\ users'[j] = [users[j] EXCEPT !.status = "contacted"]
                          /\ \E k \in req[p].outcome : req[p].docs[k] = j]_vars

\* the addresses of the messages the transport accepted, in batch order
Accepted(recipients, outcome) ==
    LET at == SelectSeq([k \in 1..Len(recipients) |-> k],
                        LAMBDA k : k \in outcome)
    IN  [n \in 1..Len(at) |-> recipients[at[n]]]

\* C20: once the live-mode batch of a send_campaign has returned, sent_count
\* is the number of messages the SMTP session accepted and successful_emails
\* is the list of their addresses; and when the request has finished with no
\* store call raising, every record whose message was accepted has been set
\* to 'contacted' by it.
C20_ReturnIsWhatWasAccepted ==
    \A p \in Procs :
        /\ live /\ req[p].op = "send_campaign"
        /\ pc[p] \in {"sc_update", "sc_mark", "done"} /\ req[p].resolved
        /\ req[p].docs # <<>>
        => /\ req[p].sent_count = Cardinality(req[p].outcome)
           /\ req[p].successful_emails =
                 Accepted(EmailsOf(req[p].docs), req[p].outcome)
           /\ pc[p] = "done" /\ ~req[p].storeFailed =>
                 \A k \in req[p].outcome : req[p].docs[k] \in req[p].marked

\* the messages send_campaign ends with
Outcomes ==
    {"no_pending", "demo_sent", "sent_all", "partial", "failed", "error",
     "not_found", "not_draft"}

\* C21: in a send_campaign whose SMTP session was established every resolved
\* recipient is handed to send_message once, in the order resolved, and at
\* most one session is opened; a dispatch that has been taken always ends
\* (no worker stays in the middle of one for ever), with one of the outcome
\* messages.
C21_AttemptedOnceAndTerminates ==
    /\ [](\A p \in Procs :
            req[p].op = "send_campaign" /\ req[p].connected =>
                /\ req[p].attempted = [k \in 1..Len(req[p].docs) |-> k]
                /\ req[p].sessions = 1)
    /\ [](\A p \in Procs :
            Finished(p, {"send_campaign"}) => req[p].flash \in Outcomes)
    /\ \A p \in Procs :
          []<>(req[p].op \in Dispatches => pc[p] = "done")

\* a live send_campaign that has ended as partially sent: of two resolved
\* recipients the first was refused and the second was still attempted
C21_Witness ==
    \E p \in Procs :
        /\ Finished(p, {"send_campaign"}) /\ req[p].connected
        /\ req[p].attempted = <<1, 2>> /\ req[p].outcome = {2}
        /\ req[p].flash = "partial"

\* how often a call is made in a trace of SMTP calls
Count(calls, name) ==
    Cardinality({ i \in 1..Len(calls) : calls[i].call = name })

\* C22: the SMTP calls of one live-mode batch: one session is opened, first
\* of all; login is called at most once, and once if any message is sent;
\* every send_message comes after the login that succeeded; after a
\* successful login each recipient's message is sent, in order, in that
\* session; and quit, if called, is the last call, after all of them.
C22_OneSessionOneLogin ==
    \A p \in Procs :
        LET c == req[p].smtp
            n == IF req[p].op = "test_email" THEN 1 ELSE Len(req[p].docs)
            sends == SelectSeq(c, LAMBDA e : e.call = "send_message")
        IN  /\ live
            /\ \/ Finished(p, {"test_email"}) /\ req[p].email # <<>>
               \/ req[p].op = "send_campaign" /\ pc[p] = "sc_sent"
            => /\ Count(c, "SMTP") = 1 /\ c[1].call = "SMTP"
               /\ Count(c, "login") <= 1
               /\ \A i \in 1..Len(c) :
                     c[i].call = "send_message" =>
                         \E j \in 1..(i - 1) : c[j].call = "login" /\ c[j].ok
               /\ (\E j \in 1..Len(c) : c[j].call = "login" /\ c[j].ok) =>
                     [k \in 1..Len(sends) |-> sends[k].to] = [k \in 1..n |-> k]
               /\ \A i \in 1..Len(c) :
                     c[i].call = "quit" => i = Len(c) /\ Len(sends) = n

\* a live send_campaign over two recipients at the end of its batch: session
\* opened, login, two messages, quit
C22_Witness ==
    \E p \in Procs :
        /\ live /\ req[p].op = "send_campaign" /\ pc[p] = "sc_sent"
        /\ Len(req[p].docs) = 2 /\ Len(req[p].smtp) = 6
        /\ req[p].smtp[6].call = "quit" /\ req[p].smtp[6].ok

\* C23: a send_campaign that has set a record to 'contacted', or is in its
\* loop over the records, has written the campaign as 'sent' before; one
\* whose campaign write raised has ended with the error message and has set
\* no record to 'contacted'.
C23_CampaignWrittenBeforeMarks ==
    \A p \in Procs :
        req[p].op = "send_campaign" =>
            /\ req[p].marked # {} \/ pc[p] = "sc_mark" =>
                  req[p].wrote # <<>> /\ req[p].wrote[1].status = "sent"
            /\ pc[p] = "done" /\ req[p].docs # <<>> /\ req[p].wrote = <<>> =>
                  req[p].marked = {} /\ req[p].flash = "error"

\* a live send_campaign whose message was accepted and whose campaign was
\* deleted before it could be written: ended in error, the signup pending
C23_Witness ==
    \E p \in Procs :
        /\ Finished(p, {"send_campaign"}) /\ req[p].flash = "error"
        /\ req[p].sent_count > 0 /\ req[p].wrote = <<>>
        /\ req[p].cid \notin DOMAIN campaigns
        /\ \A k \in 1..Len(req[p].docs) :
              users[req[p].docs[k]].status = "pending"

\* C24: a delete_campaign whose delete returns leaves no campaign under the
\* id it was given, whatever the campaign's status was, and changes no other
\* campaign and no signup record; and a campaign id that has been handed out
\* and has no document never has one again.
C24_DeletedStaysDeleted ==
    [][/\ \A p \in Procs :
            /\ pc[p] = "idle" /\ req'[p].op = "delete_campaign"
            /\ ~req'[p].storeFailed
            => /\ DOMAIN campaigns' = DOMAIN campaigns \ {req'[p].cid}
               /\ \A c \in DOMAIN campaigns' : campaigns'[c] = campaigns[c]
               /\ users' = users
       /\ \A c \in 1..nextCampaign :
            c \notin DOMAIN campaigns => c \notin DOMAIN campaigns']_vars

\* a delete_campaign has just removed a draft for which a send_campaign,
\* its batch sent, is about to write the campaign
C24_Witness ==
    \E p, q \in Procs :
        /\ Finished(p, {"delete_campaign"}) /\ ~req[p].storeFailed
        /\ req[p].cid \in 1..nextCampaign
        /\ req[p].cid \notin DOMAIN campaigns
        /\ req[q].op = "send_campaign" /\ pc[q] = "sc_update"
        /\ req[q].cid = req[p].cid /\ req[q].sent_count > 0

Range(seq) == { seq[k] : k \in 1..Len(seq) }

\* C25: a dispatch resolves exactly the records that are 'pending' at its
\* query; from then on its recipient list is fixed, the messages it hands
\* over go to positions of that list, and its steps leave every record
\* outside the list as it is, so a record signed up after the query is not
\* written by this dispatch and is resolved by the next query while pending.
C25_LateSignupLeftPending ==
    [][\A p \in Procs :
          /\ ~req[p].resolved /\ req'[p].resolved =>
                Range(req'[p].docs) =
                    { d \in 1..Len(users) : users[d].status = "pending" }
          /\ req[p].op = "send_campaign" /\ req[p].resolved /\ req'[p] # req[p] =>
                /\ req'[p].op = "send_campaign" => req'[p].docs = req[p].docs
                /\ \A k \in 1..Len(req'[p].smtp) :
                      req'[p].smtp[k].call = "send_message" =>
                          req'[p].smtp[k].to \in 1..Len(req[p].docs)
                /\ Len(users') = Len(users)
                /\ \A d \in 1..Len(users) \ Range(req[p].docs) :
                      users'[d] = users[d]]_vars

\* a send_campaign has marked a recipient and ended while a record signed up
\* after its query is 'pending'
C25_Witness ==
    \E p \in Procs :
        /\ Finished(p, {"send_campaign"}) /\ req[p].marked # {}
        /\ \E d \in 1..Len(users) :
              /\ \A k \in Range(req[p].docs) : k < d
              /\ users[d].status = "pending"

\* C26: a test_email given an address hands send_email_campaign a list of
\* that one address and flashes success exactly when it returns a count
\* above zero; the request, with or without an address, sent or failed,
\* leaves every campaign and every signup record as it was.
C26_TestEmailWritesNothing ==
    [][\A p \in Procs :
          pc[p] = "idle" /\ req'[p].op = "test_email" =>
              /\ users' = users
              /\ campaigns' = campaigns
              /\ nextCampaign' = nextCampaign
              /\ req'[p].email = <<>> =>
                    req'[p].flash = "address_required" /\ req'[p].smtp = <<>>
              /\ req'[p].email # <<>> =>
                    /\ \E t \in Transport(1) :
                          LET s == SendEmailCampaign(<<req'[p].email>>, t.connectOk,
                                                     t.accept, t.quitOk)
                          IN  /\ req'[p].sent_count = s.sent_count
                              /\ req'[p].successful_emails = s.successful_emails
                              /\ req'[p].smtp = SmtpCalls(t, 1)
                    /\ req'[p].flash =
                          IF req'[p].sent_count > 0 THEN "test_sent"
                          ELSE "test_failed"]_vars

\* a test message has been accepted while a signup is 'pending' and a draft
\* is saved
C26_Witness ==
    \E p \in Procs :
        /\ Finished(p, {"test_email"}) /\ req[p].flash = "test_sent"
        /\ req[p].successful_emails = <<req[p].email>>
        /\ \E d \in 1..Len(users) : users[d].status = "pending"
        /\ \E c \in DOMAIN campaigns : campaigns[c].status = "draft"

\* the recipient with each attribute it lacks set to the empty string
Filled(recipient) ==
    [k \in DOMAIN Keys |-> IF k \in DOMAIN recipient THEN recipient[k] ELSE <<>>]

C27_NamedRendersEmpty ==
    \A p \in Procs :
        Finished(p, {"send_email_campaign"}) /\ "name" \in DOMAIN req[p].recipient =>
            \A k \in 1..Len(req[p].msgs) :
                req[p].msgs[k] = Substituted(req[p].content, Filled(req[p].recipient))
====
